---------------------------- MODULE Spec2Model ----------------------------
(***************************************************************************)
(* State-machine model of src/app/page.tsx (the gamified portfolio page).  *)
(*                                                                         *)
(* The page is a React component tree.  Its state is the gameState object  *)
(* of Portfolio, the dragonAttacks list, the local state of DragonBoss,    *)
(* Character and each Fireball, and the one-shot timers armed with         *)
(* setTimeout.  One action of the model is one callback of the page        *)
(* (a click handler, a key handler, a timer callback, or one display       *)
(* frame running every useFrame callback), followed by the re-render       *)
(* React schedules for its state updates.  A callback therefore reads the  *)
(* state committed by the callbacks before it, with one exception that     *)
(* the code makes itself: a setTimeout callback keeps the gameState of the *)
(* render it was created in (a closure), which the model keeps in the      *)
(* timer record as "seen".                                                 *)
(*                                                                         *)
(* Units: times are milliseconds, lengths are thousandths of a scene unit. *)
(* Clock readings (Date.now(), state.clock.elapsedTime) are kept relative  *)
(* to the present instant: the present is 0, and every stored time stamp   *)
(* and timer deadline is shifted down by delta when a frame lets delta ms  *)
(* pass.  Item names are sequences of words, so that String.includes is    *)
(* computed on the name rather than tabulated.                             *)
(*                                                                         *)
(* Not modelled: selectedStation, showParticles, battleStarted (written,   *)
(* read only by the layout), the y coordinate animations, colours.         *)
(***************************************************************************)
EXTENDS Integers, Sequences, FiniteSets, TLC

VARIABLES
    level, experience, health, maxHealth, mana, maxMana,   \* gameState
    inventory, equipment, unlockedSections,                \* gameState
    isInBattle, dragonHealth, maxDragonHealth,             \* gameState
    playerPosition, isAttacking, isDodging,                \* gameState
    lastAttackTime, invulnerable,                          \* gameState
    dragonAttacks,          \* useState<DragonAttack[]> of Portfolio
    hasHit,                 \* ids of the mounted Fireballs whose hasHit is true
    attackCooldown,         \* DragonBoss local state
    currentAttackPattern,   \* DragonBoss local state
    movement, isMoving,     \* Character local state
    direction,              \* Character local state, in quarter turns (PI / 2)
    meshPosition,           \* Character meshRef.current.position
    timers,                 \* pending setTimeout callbacks, in arming order
    readyForBattle,         \* the value the last render computed
    op                      \* the callback that ran in the last step

statVars == <<level, experience, health, maxHealth, mana, maxMana>>
bagVars == <<inventory, equipment, unlockedSections>>
fightVars == <<isInBattle, dragonHealth, maxDragonHealth, playerPosition,
               isAttacking, isDodging, lastAttackTime, invulnerable>>
dragonVars == <<dragonAttacks, hasHit, attackCooldown, currentAttackPattern>>
characterVars == <<movement, isMoving, direction, meshPosition>>
vars == <<statVars, bagVars, fightVars, dragonVars, characterVars, timers,
          readyForBattle, op>>

-----------------------------------------------------------------------------
(* Bounds of the model. *)

\* Click handlers that award experience are taken only up to this total.
MaxExperience == 5200

\* The portfolio-only specification explores every reward button up to this total.
MaxPortfolioExperience == 1050

\* The keyboard specifications start the battle as soon as the gate opens.
MaxKeyboardExperience == 4200

\* Frames run while the dragon has fired at most this many attacks in a battle.
MaxAttackPattern == 15

\* The same, in the keyboard specifications.
MaxKeyboardAttackPattern == 4

\* Experience total of the specification with fairness: level 5 is reached
\* with all sections unlocked, and the battle starts there.
MaxLiveExperience == 4200

\* The same, in the specification that walks the arena.
MaxArenaAttackPattern == 1

\* The frame deltas, in ms, of the specification that walks the arena: the
\* delta of useFrame is whatever time passed since the last frame.
ArenaFrameDeltas == {1000}

\* The same, in the specification of the won battle.
MaxVictoryAttackPattern == 1

\* The same, in the specification that walks and attacks.
MaxFightAttackPattern == 2

\* Math.random() in the damage roll, 20 + floor(random * 10): the two extremes.
DamageRolls == {20, 29}

CooldownRollsShort == {1000, 3500}

\* Math.random() in the new cooldown, 2 + random * 2 seconds.
CooldownRolls == {2000, 3500}

\* Elapsed time of one display frame (delta of useFrame), in ms.
FrameDeltas == {100}

-----------------------------------------------------------------------------
(* Values. *)

Max(a, b) == IF a >= b THEN a ELSE b
Min(a, b) == IF a <= b THEN a ELSE b

Resources == {"diamonds", "emeralds", "gold", "iron", "redstone", "wood"}

WoodenSword == <<"Wooden", "Sword">>
IronSword == <<"Iron", "Sword">>
DiamondSword == <<"Diamond", "Sword">>
LeatherArmor == <<"Leather", "Armor">>
IronArmor == <<"Iron", "Armor">>
DiamondArmor == <<"Diamond", "Armor">>
NoShield == << >>

\* item.includes(word)
Includes(item, word) == \E i \in DOMAIN item : item[i] = word

\* obj[key] || 0
Get(obj, key) == IF key \in DOMAIN obj THEN obj[key] ELSE 0

Sections == <<"about", "experience", "skills", "projects">>

\* The four unlock buttons: section, experience, items.
UnlockButtons ==
    << [section |-> "about", experience |-> 100, items |-> [wood |-> 5, iron |-> 2]],
       [section |-> "experience", experience |-> 150, items |-> [iron |-> 5, gold |-> 2]],
       [section |-> "skills", experience |-> 200, items |-> [emeralds |-> 5, redstone |-> 3]],
       [section |-> "projects", experience |-> 250, items |-> [diamonds |-> 3, emeralds |-> 3]] >>

\* experiences[i].rewards
experiences ==
    << [diamonds |-> 10, emeralds |-> 5, experience |-> 500],
       [diamonds |-> 8, gold |-> 10, experience |-> 400],
       [emeralds |-> 8, iron |-> 15, experience |-> 300] >>

\* projects[i].rewards
projects ==
    << [diamonds |-> 15, experience |-> 300],
       [emeralds |-> 12, experience |-> 250],
       [gold |-> 20, experience |-> 200] >>

\* skills[i].level
skills == <<95, 90, 88, 85>>

\* The four crafting buttons: item and cost.
CraftButtons ==
    << [item |-> IronSword, cost |-> [iron |-> 5, wood |-> 2]],
       [item |-> DiamondSword, cost |-> [diamonds |-> 3, iron |-> 2]],
       [item |-> IronArmor, cost |-> [iron |-> 8]],
       [item |-> DiamondArmor, cost |-> [diamonds |-> 5]] >>

-----------------------------------------------------------------------------
(* The state after construction. *)

Init ==
    /\ level = 1
    /\ experience = 0
    /\ health = 100
    /\ maxHealth = 100
    /\ mana = 50
    /\ maxMana = 50
    /\ inventory = [r \in Resources |-> 0]
    /\ equipment = [weapon |-> WoodenSword, armor |-> LeatherArmor, shield |-> NoShield]
    /\ unlockedSections = << >>
    /\ isInBattle = FALSE
    /\ dragonHealth = 1000
    /\ maxDragonHealth = 1000
    /\ playerPosition = <<0, 0, 0>>
    /\ isAttacking = FALSE
    /\ isDodging = FALSE
    /\ lastAttackTime = -500
    /\ invulnerable = FALSE
    /\ dragonAttacks = << >>
    /\ hasHit = {}
    /\ attackCooldown = 0
    /\ currentAttackPattern = 0
    /\ movement = [w |-> FALSE, a |-> FALSE, s |-> FALSE, d |-> FALSE]
    /\ isMoving = FALSE
    /\ direction = 0
    /\ meshPosition = <<0, 0, 0>>
    /\ timers = << >>
    /\ readyForBattle = FALSE
    /\ op = [name |-> "init"]

-----------------------------------------------------------------------------
(* Portfolio functions. *)

NewLevelRounded(newExp) == ((newExp + 500) \div 1000) + 1

\* Math.floor(newExp / 1000) + 1
NewLevel(newExp) == (newExp \div 1000) + 1

\* gainExperience with a mana bonus of 20 per level
GainExperienceManaBonus20(amount) ==
    LET newExp == experience + amount
        newLevel == NewLevel(newExp)
        leveledUp == newLevel > level
    IN  /\ experience' = newExp
        /\ level' = newLevel
        /\ maxHealth' = IF leveledUp THEN maxHealth + 20 ELSE maxHealth
        /\ health' = IF leveledUp THEN maxHealth + 20 ELSE health
        /\ maxMana' = IF leveledUp THEN maxMana + 20 ELSE maxMana
        /\ mana' = IF leveledUp THEN maxMana + 20 ELSE mana

GainExperienceKeepsHealth(amount) ==
    LET newExp == experience + amount
        newLevel == NewLevel(newExp)
        leveledUp == newLevel > level
    IN  /\ experience' = newExp
        /\ level' = newLevel
        /\ maxHealth' = IF leveledUp THEN maxHealth + 20 ELSE maxHealth
        /\ health' = health
        /\ maxMana' = IF leveledUp THEN maxMana + 10 ELSE maxMana
        /\ mana' = IF leveledUp THEN maxMana + 10 ELSE mana

\* gainExperience(amount): the updater applied to the state
GainExperience(amount) ==
    LET newExp == experience + amount
        newLevel == NewLevel(newExp)
        leveledUp == newLevel > level
    IN  /\ experience' = newExp
        /\ level' = newLevel
        /\ maxHealth' = IF leveledUp THEN maxHealth + 20 ELSE maxHealth
        /\ health' = IF leveledUp THEN maxHealth + 20 ELSE health
        /\ maxMana' = IF leveledUp THEN maxMana + 10 ELSE maxMana
        /\ mana' = IF leveledUp THEN maxMana + 10 ELSE mana

\* addToInventory(items): every key of items, "experience" included, is added
AddedToInventory(inv, items) ==
    [k \in (DOMAIN inv) \cup (DOMAIN items) |->
        IF k \in DOMAIN items THEN Get(inv, k) + Get(items, k) ELSE inv[k]]

\* unlockSection(section)
UnlockedWith(sections, section) == Append(sections, section)

CanCraftSome(inv, cost) ==
    \E k \in DOMAIN cost : k \in DOMAIN inv /\ inv[k] >= Get(cost, k)

\* canCraft of craftEquipment; undefined >= n is false
CanCraft(inv, cost) ==
    \A k \in DOMAIN cost : k \in DOMAIN inv /\ inv[k] >= Get(cost, k)

\* the inventory craftEquipment writes
CraftedInventory(inv, cost) ==
    [k \in (DOMAIN inv) \cup (DOMAIN cost) |->
        IF k \in DOMAIN cost THEN Get(inv, k) - Get(cost, k) ELSE inv[k]]

CraftedEquipmentOnly(eq, item) ==
    [weapon |-> IF Includes(item, "Sword") THEN item ELSE NoShield,
     armor |-> IF Includes(item, "Armor") THEN item ELSE NoShield,
     shield |-> IF Includes(item, "Shield") THEN item ELSE NoShield]

\* the equipment craftEquipment writes
CraftedEquipment(eq, item) ==
    [weapon |-> IF Includes(item, "Sword") THEN item ELSE eq.weapon,
     armor |-> IF Includes(item, "Armor") THEN item ELSE eq.armor,
     shield |-> IF Includes(item, "Shield") THEN item ELSE eq.shield]

ReadyForBattleEither(sections, lvl) == Len(sections) >= 4 \/ lvl >= 5

\* readyForBattle, computed by every render
ReadyForBattle(sections, lvl) == Len(sections) >= 4 /\ lvl >= 5

Render == readyForBattle' = ReadyForBattle(unlockedSections', level')

-----------------------------------------------------------------------------
(* Click handlers of the page.  Every section of the page is rendered at   *)
(* all times, so every button below can be clicked in and out of battle.   *)

Range(seq) == {seq[i] : i \in DOMAIN seq}

UnlockNeverDisabled(sections, section) == FALSE

\* disabled={gameState.unlockedSections.includes(section)}
UnlockDisabled(sections, section) == section \in Range(sections)

\* onClick of an unlock button: unlockSection, gainExperience, addToInventory
UnlockClick(i) ==
    LET b == UnlockButtons[i] IN
    /\ ~UnlockDisabled(unlockedSections, b.section)
    /\ unlockedSections' = UnlockedWith(unlockedSections, b.section)
    /\ GainExperience(b.experience)
    /\ inventory' = AddedToInventory(inventory, b.items)
    /\ op' = [name |-> "unlock", section |-> b.section]
    /\ UNCHANGED <<equipment, fightVars, dragonVars, characterVars, timers>>
    /\ Render

\* onClick of "Claim Rewards" of experiences[i]
ClaimRewardsClick(i) ==
    /\ GainExperience(experiences[i].experience)
    /\ inventory' = AddedToInventory(inventory, experiences[i])
    /\ op' = [name |-> "claimRewards", card |-> i]
    /\ UNCHANGED <<equipment, unlockedSections, fightVars, dragonVars,
                   characterVars, timers>>
    /\ Render

\* onClick of "Power Up" of skills[i]
PowerUpClick(i) ==
    /\ GainExperience(skills[i])
    /\ inventory' = AddedToInventory(inventory, [diamonds |-> 1])
    /\ op' = [name |-> "powerUp", card |-> i]
    /\ UNCHANGED <<equipment, unlockedSections, fightVars, dragonVars,
                   characterVars, timers>>
    /\ Render

\* onClick of "Claim Project Rewards" of projects[i]
ClaimProjectRewardsClick(i) ==
    /\ GainExperience(projects[i].experience)
    /\ inventory' = AddedToInventory(inventory, projects[i])
    /\ op' = [name |-> "claimProjectRewards", card |-> i]
    /\ UNCHANGED <<equipment, unlockedSections, fightVars, dragonVars,
                   characterVars, timers>>
    /\ Render

\* craftEquipment(item, cost), the onClick of a crafting button.  The button's
\* disabled prop is the negation of canCraft, so a click it lets through and
\* a direct call differ in nothing: the call is modelled.
CraftEquipment(item, cost) ==
    LET canCraft == CanCraft(inventory, cost) IN
    /\ IF canCraft
       THEN /\ inventory' = CraftedInventory(inventory, cost)
            /\ equipment' = CraftedEquipment(equipment, item)
            /\ GainExperience(100)
       ELSE UNCHANGED <<inventory, equipment, statVars>>
    /\ op' = [name |-> "craftEquipment", item |-> item, cost |-> cost,
              canCraft |-> canCraft]
    /\ UNCHANGED <<unlockedSections, fightVars, dragonVars, characterVars, timers>>
    /\ Render

StartBattleShownUnready == ~isInBattle

\* the Battle Section renders START BATTLE when readyForBattle and not isInBattle
StartBattleShown == readyForBattle /\ ~isInBattle

\* startBattle, the onClick of START BATTLE.  DragonBoss mounts with its
\* initial local state.
StartBattle ==
    /\ StartBattleShown
    /\ isInBattle' = TRUE
    /\ playerPosition' = <<0, 0, 0>>
    /\ attackCooldown' = 0
    /\ currentAttackPattern' = 0
    /\ op' = [name |-> "startBattle"]
    /\ UNCHANGED <<statVars, bagVars, dragonHealth, maxDragonHealth, isAttacking,
                   isDodging, lastAttackTime, invulnerable, dragonAttacks, hasHit,
                   characterVars, timers>>
    /\ Render

TryAgainInitialHealth ==
    /\ readyForBattle
    /\ isInBattle
    /\ ~(dragonHealth <= 0)
    /\ health <= 0
    /\ health' = 100
    /\ isInBattle' = FALSE
    /\ dragonHealth' = maxDragonHealth
    /\ attackCooldown' = 0
    /\ currentAttackPattern' = 0
    /\ op' = [name |-> "tryAgain"]
    /\ UNCHANGED <<level, experience, maxHealth, mana, maxMana, bagVars,
                   maxDragonHealth, playerPosition, isAttacking, isDodging,
                   lastAttackTime, invulnerable, dragonAttacks, hasHit,
                   characterVars, timers>>
    /\ Render

\* onClick of Try Again, rendered in battle when the dragon lives and
\* health <= 0.  DragonBoss unmounts and its local state is dropped.
TryAgain ==
    /\ readyForBattle
    /\ isInBattle
    /\ ~(dragonHealth <= 0)
    /\ health <= 0
    /\ health' = maxHealth
    /\ isInBattle' = FALSE
    /\ dragonHealth' = maxDragonHealth
    /\ attackCooldown' = 0
    /\ currentAttackPattern' = 0
    /\ op' = [name |-> "tryAgain"]
    /\ UNCHANGED <<level, experience, maxHealth, mana, maxMana, bagVars,
                   maxDragonHealth, playerPosition, isAttacking, isDodging,
                   lastAttackTime, invulnerable, dragonAttacks, hasHit,
                   characterVars, timers>>
    /\ Render

-----------------------------------------------------------------------------
(* The portfolio alone: every reward and crafting button, no battle. *)

NextPortfolio ==
    \/ \E i \in DOMAIN UnlockButtons :
          /\ experience + UnlockButtons[i].experience <= MaxPortfolioExperience
          /\ UnlockClick(i)
    \/ \E i \in DOMAIN experiences :
          /\ experience + experiences[i].experience <= MaxPortfolioExperience
          /\ ClaimRewardsClick(i)
    \/ \E i \in DOMAIN skills :
          /\ experience + skills[i] <= MaxPortfolioExperience
          /\ PowerUpClick(i)
    \/ \E i \in DOMAIN projects :
          /\ experience + projects[i].experience <= MaxPortfolioExperience
          /\ ClaimProjectRewardsClick(i)
    \/ \E i \in DOMAIN CraftButtons :
          /\ experience + 100 <= MaxPortfolioExperience
          /\ CraftEquipment(CraftButtons[i].item, CraftButtons[i].cost)

SpecPortfolio == Init /\ [][NextPortfolio]_vars

-----------------------------------------------------------------------------
(* A craft button clicked twice on one render.  canCraft and the disabled   *)
(* prop of the buttons read the gameState of the render the handler was     *)
(* created in; the updater subtracts from the state it is given (prev).     *)
(* React renders the update of a click before it delivers the next click of *)
(* a visitor, which is the scheduling of NextPortfolio; two clicks          *)
(* delivered within one task (a script calling click() twice) are both      *)
(* handled by the same craftEquipment closure, and that is the step below.  *)
(* The two gainExperience(100) updaters cross at most one level boundary,   *)
(* so their sum is applied.                                                 *)

CraftEquipmentTwice(item1, cost1, item2, cost2) ==
    LET canCraft1 == CanCraft(inventory, cost1)
        canCraft2 == CanCraft(inventory, cost2)
        inventory1 == IF canCraft1 THEN CraftedInventory(inventory, cost1) ELSE inventory
        equipment1 == IF canCraft1 THEN CraftedEquipment(equipment, item1) ELSE equipment
        crafted == (IF canCraft1 THEN 1 ELSE 0) + (IF canCraft2 THEN 1 ELSE 0)
    IN
    /\ inventory' = IF canCraft2 THEN CraftedInventory(inventory1, cost2) ELSE inventory1
    /\ equipment' = IF canCraft2 THEN CraftedEquipment(equipment1, item2) ELSE equipment1
    /\ IF crafted > 0 THEN GainExperience(100 * crafted) ELSE UNCHANGED statVars
    /\ op' = [name |-> "craftEquipmentTwice", items |-> <<item1, item2>>,
              canCraft |-> <<canCraft1, canCraft2>>]
    /\ UNCHANGED <<unlockedSections, fightVars, dragonVars, characterVars, timers>>
    /\ Render

NextCraft ==
    \/ NextPortfolio
    \/ \E i \in DOMAIN CraftButtons :
          /\ experience + 200 <= MaxPortfolioExperience
          /\ CraftEquipmentTwice(CraftButtons[i].item, CraftButtons[i].cost,
                                 CraftButtons[i].item, CraftButtons[i].cost)

SpecCraft == Init /\ [][NextCraft]_vars

-----------------------------------------------------------------------------
(* Combat functions. *)

\* gameState.dragonPosition, never assigned after construction
dragonPosition == <<0, 15000, -10000>>

patternsSwapped == <<"fireball", "aoe", "breath", "charge">>

\* patterns of DragonBoss
patterns == <<"fireball", "breath", "aoe", "charge">>

AttackDurationAoeShort(type) ==
    IF type = "fireball" THEN 2000 ELSE 1500

\* duration of a new attack, by type
AttackDuration(type) ==
    IF type = "fireball" THEN 2000 ELSE IF type = "aoe" THEN 3000 ELSE 1500

\* squared planar distance of two [x, y, z] positions
PlanarDistance2(p, q) == (p[1] - q[1]) * (p[1] - q[1]) + (p[3] - q[3]) * (p[3] - q[3])

HitHealthUnclamped(h, damage) == h - damage

\* Math.max(0, prev.health - damage) of handlePlayerHit
HitHealth(h, damage) == Max(0, h - damage)

\* the guard of handlePlayerHit, on the gameState its closure holds
HitIgnored(seenInvulnerable) == seenInvulnerable

\* the timer handlePlayerHit arms
InvulnerabilityTimer ==
    [kind |-> "invulnerable", due |-> 1000, attack |-> [id |-> 0], seen |-> [none |-> TRUE]]

\* the timer handlePlayerAttack arms
AttackAnimationTimer ==
    [kind |-> "attackAnimation", due |-> 300, attack |-> [id |-> 0], seen |-> [none |-> TRUE]]

\* damage of handlePlayerAttack
PlayerDamage(lvl, weapon) == lvl * 10 + (IF weapon = DiamondSword THEN 50 ELSE 20)

\* distance < 8 of handlePlayerAttack
InAttackRange(player, dragon) == PlanarDistance2(player, dragon) < 8000 * 8000

\* Math.max(0, prev.dragonHealth - damage) of handlePlayerAttack
AttackedDragonHealth(h, damage) == Max(0, h - damage)

OnShortAttackCooldown(last) == 0 - last < 300

\* now - gameState.lastAttackTime < 500 of handlePlayerAttack, now being 0
OnAttackCooldown(last) == 0 - last < 500

\* distance < 3 of the removal callback of handleDragonAttack
InAoeRadius(player, target) == PlanarDistance2(player, target) < 3000 * 3000

\* the [x, y, z] position a Fireball gives its mesh, elapsed ms after startTime
FireballPosition(attack, elapsed) ==
    LET num == Min(elapsed, attack.duration)
        den == attack.duration
    IN  [c \in 1..3 |->
            attack.position[c] + ((attack.target[c] - attack.position[c]) * num) \div den]

FireballCollidesByProgress(attack, elapsed) ==
    Min(elapsed, attack.duration) * 10 > 8 * attack.duration

\* distance < 1.5 && progress > 0.8 of Fireball
FireballCollides(attack, elapsed) ==
    /\ PlanarDistance2(FireballPosition(attack, elapsed), attack.target) < 1500 * 1500
    /\ Min(elapsed, attack.duration) * 10 > 8 * attack.duration

\* health after the accepted hits of one callback, in order
RECURSIVE HealthAfter(_, _)
HealthAfter(h, damages) ==
    IF damages = << >> THEN h
    ELSE HealthAfter(HitHealth(h, Head(damages)), Tail(damages))

\* `attack_${Date.now()}`: frames run at distinct instants, so the id is one
\* no attack in flight has; the least free number stands for it
FreshId == CHOOSE n \in 1..(Len(dragonAttacks) + Len(timers) + 1) :
    /\ \A i \in DOMAIN dragonAttacks : dragonAttacks[i].id # n
    /\ \A i \in DOMAIN timers : timers[i].attack.id # n
    /\ \A m \in 1..(n - 1) :
          \/ \E i \in DOMAIN dragonAttacks : dragonAttacks[i].id = m
          \/ \E i \in DOMAIN timers : timers[i].attack.id = m

\* a time stamp, re-based when delta ms pass
Earlier(attack, delta) == [attack EXCEPT !.startTime = @ - delta]

\* Math.cos and Math.sin of direction, which is a multiple of PI / 2
Cos(q) == CASE q = 0 -> 1 [] q = 2 -> -1 [] OTHER -> 0
Sin(q) == CASE q = 1 -> 1 [] q = -1 -> -1 [] OTHER -> 0

\* Character useFrame without the doubled speed of a dodge
MovedMeshSameSpeed(delta) ==
    LET x == meshPosition[1]
        z == meshPosition[3]
        speed == 4
        battleZ == z - (IF movement.w THEN speed * delta ELSE 0)
                     + (IF movement.s THEN speed * delta ELSE 0)
        battleX == x - (IF movement.a THEN speed * delta ELSE 0)
                     + (IF movement.d THEN speed * delta ELSE 0)
        exploreX == x + Cos(direction) * 3 * delta
        exploreZ == z + Sin(direction) * 3 * delta
    IN  IF isInBattle
        THEN IF movement.w \/ movement.s \/ movement.a \/ movement.d
             THEN <<Max(-12000, Min(12000, battleX)), meshPosition[2],
                    Max(-12000, Min(12000, battleZ))>>
             ELSE meshPosition
        ELSE IF /\ isMoving
                /\ exploreX > -25000 /\ exploreX < 25000
                /\ exploreZ > -25000 /\ exploreZ < 25000
             THEN <<exploreX, meshPosition[2], exploreZ>>
             ELSE meshPosition

\* Character useFrame: the mesh position after a frame of delta ms
MovedMesh(delta) ==
    LET x == meshPosition[1]
        z == meshPosition[3]
        speed == IF isDodging THEN 8 ELSE 4
        battleZ == z - (IF movement.w THEN speed * delta ELSE 0)
                     + (IF movement.s THEN speed * delta ELSE 0)
        battleX == x - (IF movement.a THEN speed * delta ELSE 0)
                     + (IF movement.d THEN speed * delta ELSE 0)
        exploreX == x + Cos(direction) * 3 * delta
        exploreZ == z + Sin(direction) * 3 * delta
    IN  IF isInBattle
        THEN IF movement.w \/ movement.s \/ movement.a \/ movement.d
             THEN <<Max(-12000, Min(12000, battleX)), meshPosition[2],
                    Max(-12000, Min(12000, battleZ))>>
             ELSE meshPosition
        ELSE IF /\ isMoving
                /\ exploreX > -25000 /\ exploreX < 25000
                /\ exploreZ > -25000 /\ exploreZ < 25000
             THEN <<exploreX, meshPosition[2], exploreZ>>
             ELSE meshPosition

-----------------------------------------------------------------------------
(* One display frame: delta ms pass, then the useFrame callbacks of          *)
(* Character, DragonBoss (mounted in battle) and every mounted Fireball run  *)
(* on the state of the last render.  Timers that are due run first.          *)
(* damage and cooldown are what the two Math.random() calls of DragonBoss    *)
(* yield in this frame, should it fire.                                      *)

Frame(delta, damage, cooldown) ==
    LET fires == isInBattle /\ attackCooldown <= 0
        type == patterns[(currentAttackPattern % Len(patterns)) + 1]
        flying == [i \in DOMAIN dragonAttacks |-> Earlier(dragonAttacks[i], delta)]
        waiting == [i \in DOMAIN timers |-> [timers[i] EXCEPT !.due = @ - delta]]
        colliding == SelectSeq(flying, LAMBDA a :
                        /\ a.type = "fireball"
                        /\ a.id \notin hasHit
                        /\ FireballCollides(a, 0 - a.startTime))
        accepted == IF HitIgnored(invulnerable) THEN << >> ELSE colliding
    IN
    /\ \A i \in DOMAIN timers : timers[i].due > 0
    /\ lastAttackTime' = Max(-500, lastAttackTime - delta)
    /\ meshPosition' = MovedMesh(delta)
    /\ IF fires
       THEN    LET newAttack == [id |-> FreshId, type |-> type,
                                 position |-> dragonPosition, target |-> playerPosition,
                                 startTime |-> 0, duration |-> AttackDuration(type),
                                 damage |-> damage]
                   removal == [kind |-> "removeAttack", due |-> newAttack.duration,
                               attack |-> newAttack,
                               seen |-> [invulnerable |-> invulnerable,
                                         playerPosition |-> playerPosition]]
               IN  /\ dragonAttacks' = Append(flying, newAttack)
                   /\ attackCooldown' = cooldown
                   /\ currentAttackPattern' = currentAttackPattern + 1
                   /\ timers' = Append(waiting, removal)
                                \o [i \in DOMAIN accepted |-> InvulnerabilityTimer]
       ELSE /\ dragonAttacks' = flying
            /\ attackCooldown' = IF isInBattle THEN Max(0, attackCooldown - delta)
                                 ELSE attackCooldown
            /\ currentAttackPattern' = currentAttackPattern
            /\ timers' = waiting \o [i \in DOMAIN accepted |-> InvulnerabilityTimer]
    /\ hasHit' = hasHit \cup {colliding[i].id : i \in DOMAIN colliding}
    /\ health' = HealthAfter(health, [i \in DOMAIN accepted |-> accepted[i].damage])
    /\ invulnerable' = (invulnerable \/ accepted # << >>)
    /\ op' = [name |-> "frame", fired |-> fires, hits |-> Len(colliding),
              accepted |-> Len(accepted), delta |-> delta]
    /\ UNCHANGED <<level, experience, maxHealth, mana, maxMana, bagVars, isInBattle,
                   dragonHealth, maxDragonHealth, playerPosition, isAttacking,
                   isDodging, movement, isMoving, direction>>
    /\ Render

-----------------------------------------------------------------------------
(* Timer callbacks.  The pending timer with the earliest deadline runs once *)
(* the deadline has passed; of two with one deadline, the one armed first.  *)

First(i) ==
    /\ timers[i].due <= 0
    /\ \A j \in DOMAIN timers :
          \/ timers[j].due > timers[i].due
          \/ (timers[j].due = timers[i].due /\ j >= i)

Without(seq, i) == SubSeq(seq, 1, i - 1) \o SubSeq(seq, i + 1, Len(seq))

\* setTimeout callback of handlePlayerAttack
AttackAnimationTimeout(i) ==
    /\ First(i)
    /\ timers[i].kind = "attackAnimation"
    /\ isAttacking' = FALSE
    /\ timers' = Without(timers, i)
    /\ op' = [name |-> "timeout", kind |-> "attackAnimation"]
    /\ UNCHANGED <<statVars, bagVars, isInBattle, dragonHealth, maxDragonHealth,
                   playerPosition, isDodging, lastAttackTime, invulnerable,
                   dragonVars, characterVars>>
    /\ Render

\* setTimeout callback of handlePlayerHit
InvulnerabilityTimeout(i) ==
    /\ First(i)
    /\ timers[i].kind = "invulnerable"
    /\ invulnerable' = FALSE
    /\ timers' = Without(timers, i)
    /\ op' = [name |-> "timeout", kind |-> "invulnerable"]
    /\ UNCHANGED <<statVars, bagVars, isInBattle, dragonHealth, maxDragonHealth,
                   playerPosition, isAttacking, isDodging, lastAttackTime,
                   dragonVars, characterVars>>
    /\ Render

AttackRemovalTimeoutClearsAll(i) ==
    LET t == timers[i]
        inRadius == t.attack.type = "aoe"
                    /\ InAoeRadius(t.seen.playerPosition, t.attack.target)
        applied == inRadius /\ ~HitIgnored(t.seen.invulnerable)
    IN
    /\ First(i)
    /\ t.kind = "removeAttack"
    /\ dragonAttacks' = << >>
    /\ hasHit' = hasHit \ {t.attack.id}
    /\ health' = IF applied THEN HitHealth(health, t.attack.damage) ELSE health
    /\ invulnerable' = (invulnerable \/ applied)
    /\ timers' = IF applied THEN Append(Without(timers, i), InvulnerabilityTimer)
                 ELSE Without(timers, i)
    /\ op' = [name |-> "timeout", kind |-> "removeAttack", type |-> t.attack.type,
              target |-> t.attack.target, vulnerable |-> ~invulnerable,
              applied |-> applied]
    /\ UNCHANGED <<level, experience, maxHealth, mana, maxMana, bagVars, isInBattle,
                   dragonHealth, maxDragonHealth, playerPosition, isAttacking,
                   isDodging, lastAttackTime, attackCooldown, currentAttackPattern,
                   characterVars>>
    /\ Render

\* setTimeout callback of handleDragonAttack: gameState and handlePlayerHit
\* are those of the render in which the attack was fired (timers[i].seen)
AttackRemovalTimeout(i) ==
    LET t == timers[i]
        inRadius == t.attack.type = "aoe"
                    /\ InAoeRadius(t.seen.playerPosition, t.attack.target)
        applied == inRadius /\ ~HitIgnored(t.seen.invulnerable)
    IN
    /\ First(i)
    /\ t.kind = "removeAttack"
    /\ dragonAttacks' = SelectSeq(dragonAttacks, LAMBDA a : a.id # t.attack.id)
    /\ hasHit' = hasHit \ {t.attack.id}
    /\ health' = IF applied THEN HitHealth(health, t.attack.damage) ELSE health
    /\ invulnerable' = (invulnerable \/ applied)
    /\ timers' = IF applied THEN Append(Without(timers, i), InvulnerabilityTimer)
                 ELSE Without(timers, i)
    /\ op' = [name |-> "timeout", kind |-> "removeAttack", type |-> t.attack.type,
              target |-> t.attack.target, vulnerable |-> ~invulnerable,
              applied |-> applied]
    /\ UNCHANGED <<level, experience, maxHealth, mana, maxMana, bagVars, isInBattle,
                   dragonHealth, maxDragonHealth, playerPosition, isAttacking,
                   isDodging, lastAttackTime, attackCooldown, currentAttackPattern,
                   characterVars>>
    /\ Render

Timeout ==
    \E i \in DOMAIN timers :
        \/ AttackAnimationTimeout(i)
        \/ InvulnerabilityTimeout(i)
        \/ AttackRemovalTimeout(i)

-----------------------------------------------------------------------------
(* Keyboard.  The window listeners of Character and of Portfolio (dodge)   *)
(* both receive every key event.                                           *)

Keys == {"w", "a", "s", "d", " ", "shift"}
MoveKeys == {"w", "a", "s", "d"}

\* setDirection of Character handleKeyDown outside battle, in quarter turns
KeyDirection(key, old) ==
    CASE key = "w" -> 1 [] key = "s" -> -1 [] key = "a" -> 2 [] key = "d" -> 0
      [] OTHER -> old

\* keydown: Character handleKeyDown (which calls handlePlayerAttack on
\* space in battle) and the dodge handleKeyDown
KeyDown(key) ==
    LET attacks == isInBattle /\ key = " "
        accepted == attacks /\ ~OnAttackCooldown(lastAttackTime)
        inRange == InAttackRange(playerPosition, dragonPosition)
        damage == PlayerDamage(level, equipment.weapon)
    IN
    /\ movement' = IF isInBattle /\ key \in MoveKeys
                   THEN [movement EXCEPT ![key] = TRUE] ELSE movement
    /\ isMoving' = IF isInBattle THEN isMoving ELSE TRUE
    /\ direction' = IF isInBattle THEN direction ELSE KeyDirection(key, direction)
    /\ isDodging' = IF key = "shift" /\ isInBattle THEN TRUE ELSE isDodging
    /\ isAttacking' = IF accepted THEN TRUE ELSE isAttacking
    /\ lastAttackTime' = IF accepted THEN 0 ELSE lastAttackTime
    /\ dragonHealth' = IF accepted /\ inRange
                       THEN AttackedDragonHealth(dragonHealth, damage) ELSE dragonHealth
    /\ timers' = IF accepted THEN Append(timers, AttackAnimationTimer) ELSE timers
    /\ op' = [name |-> "keyDown", key |-> key, attacks |-> attacks,
              accepted |-> accepted, damaged |-> accepted /\ inRange]
    /\ UNCHANGED <<statVars, bagVars, isInBattle, maxDragonHealth, playerPosition,
                   invulnerable, dragonVars, meshPosition>>
    /\ Render

\* keyup: Character handleKeyUp and the dodge handleKeyUp
KeyUp(key) ==
    /\ movement' = IF isInBattle /\ key \in MoveKeys
                   THEN [movement EXCEPT ![key] = FALSE] ELSE movement
    /\ isMoving' = IF isInBattle THEN isMoving ELSE FALSE
    /\ isDodging' = IF key = "shift" THEN FALSE ELSE isDodging
    /\ op' = [name |-> "keyUp", key |-> key]
    /\ UNCHANGED <<statVars, bagVars, isInBattle, dragonHealth, maxDragonHealth,
                   playerPosition, isAttacking, lastAttackTime, invulnerable,
                   dragonVars, direction, meshPosition, timers>>
    /\ Render

-----------------------------------------------------------------------------
(* The battle without keyboard input: the visitor unlocks the sections,    *)
(* claims the first experience card, starts the battle, retries.  In the   *)
(* specifications with a battle the visitor works down the page: an unlock *)
(* button is clicked only once the sections above it are unlocked (every   *)
(* order of unlocking is explored by SpecPortfolio).                       *)

InPageOrder(i) ==
    \A j \in 1..(i - 1) : UnlockButtons[j].section \in Range(unlockedSections)

Next ==
    \/ \E i \in DOMAIN UnlockButtons :
          /\ experience + UnlockButtons[i].experience <= MaxExperience
          /\ InPageOrder(i)
          /\ UnlockClick(i)
    \/ /\ experience + experiences[1].experience <= MaxExperience
       /\ ClaimRewardsClick(1)
    \/ StartBattle
    \/ TryAgain
    \/ \E delta \in FrameDeltas, damage \in DamageRolls,
          cooldown \in CooldownRolls :
          /\ currentAttackPattern <= MaxAttackPattern
          /\ Frame(delta, damage, cooldown)
    \/ Timeout

Spec == Init /\ [][Next]_vars

-----------------------------------------------------------------------------
(* The same with the scheduling the browser guarantees: the animation loop  *)
(* keeps running frames and every timer that is due runs.  Frames in which  *)
(* the dragon does not fire are not bounded.                                *)

LiveFrame ==
    \E delta \in FrameDeltas, damage \in DamageRolls, cooldown \in CooldownRolls :
        /\ \/ currentAttackPattern <= MaxAttackPattern
           \/ ~(isInBattle /\ attackCooldown <= 0)
        /\ Frame(delta, damage, cooldown)

NextLive ==
    \/ \E i \in DOMAIN UnlockButtons :
          /\ experience + UnlockButtons[i].experience <= MaxLiveExperience
          /\ InPageOrder(i)
          /\ UnlockClick(i)
    \/ /\ experience + experiences[1].experience <= MaxLiveExperience
       /\ ClaimRewardsClick(1)
    \/ StartBattle
    \/ TryAgain
    \/ LiveFrame
    \/ Timeout

SpecLive == Init /\ [][NextLive]_vars /\ WF_vars(LiveFrame) /\ WF_vars(Timeout)

-----------------------------------------------------------------------------
(* The start of a battle with the attack key, and with a movement key.     *)

KeyboardBattle ==
    \/ \E i \in DOMAIN UnlockButtons :
          /\ experience + UnlockButtons[i].experience <= MaxKeyboardExperience
          /\ InPageOrder(i)
          /\ UnlockClick(i)
    \/ /\ experience + experiences[1].experience <= MaxKeyboardExperience
       /\ ClaimRewardsClick(1)
    \/ StartBattle
    \/ \E delta \in FrameDeltas, damage \in DamageRolls, cooldown \in CooldownRolls :
          /\ currentAttackPattern <= MaxKeyboardAttackPattern
          /\ Frame(delta, damage, cooldown)
    \/ Timeout

NextAttack ==
    \/ KeyboardBattle
    \/ isInBattle /\ KeyDown(" ")
    \/ isInBattle /\ KeyUp(" ")

SpecAttack == Init /\ [][NextAttack]_vars

NextMove ==
    \/ KeyboardBattle
    \/ isInBattle /\ KeyDown("d")
    \/ isInBattle /\ KeyUp("d")

SpecMove == Init /\ [][NextMove]_vars

\* The visitor walks towards the dragon with "w" and attacks with space.
NextFight ==
    \/ \E i \in DOMAIN UnlockButtons :
          /\ experience + UnlockButtons[i].experience <= MaxKeyboardExperience
          /\ InPageOrder(i)
          /\ UnlockClick(i)
    \/ /\ experience + experiences[1].experience <= MaxKeyboardExperience
       /\ ClaimRewardsClick(1)
    \/ StartBattle
    \/ \E delta \in FrameDeltas, damage \in DamageRolls, cooldown \in CooldownRolls :
          /\ currentAttackPattern <= MaxFightAttackPattern
          /\ Frame(delta, damage, cooldown)
    \/ Timeout
    \/ isInBattle /\ KeyDown("w")
    \/ isInBattle /\ KeyUp("w")
    \/ isInBattle /\ KeyDown(" ")

SpecFight == Init /\ [][NextFight]_vars

-----------------------------------------------------------------------------
(* In the battle the visitor holds and releases any of the four movement   *)
(* keys and the dodge key.                                                 *)

ArenaKeys == MoveKeys \cup {"shift"}

NextArena ==
    \/ \E i \in DOMAIN UnlockButtons :
          /\ experience + UnlockButtons[i].experience <= MaxKeyboardExperience
          /\ InPageOrder(i)
          /\ UnlockClick(i)
    \/ /\ experience + experiences[1].experience <= MaxKeyboardExperience
       /\ ClaimRewardsClick(1)
    \/ StartBattle
    \/ \E delta \in ArenaFrameDeltas, damage \in DamageRolls, cooldown \in CooldownRolls :
          /\ currentAttackPattern <= MaxArenaAttackPattern
          /\ Frame(delta, damage, cooldown)
    \/ Timeout
    \/ \E key \in ArenaKeys : isInBattle /\ KeyDown(key)
    \/ \E key \in ArenaKeys : isInBattle /\ KeyUp(key)

SpecArena == Init /\ [][NextArena]_vars

-----------------------------------------------------------------------------
(* The handlers on a won battle.  The page as written never brings          *)
(* dragonHealth to 0, so the state the victory display is written for       *)
(* (isInBattle, dragonHealth <= 0) is taken as the starting state here: a   *)
(* level 5 visitor who unlocked the four sections, claimed the first        *)
(* experience card seven times and started the battle, with the dragon's    *)
(* health at 0.  The key handlers, the frames and the timers are the        *)
(* page's own.                                                              *)

InitVictory ==
    /\ level = 5
    /\ experience = 4200
    /\ health = 180
    /\ maxHealth = 180
    /\ mana = 90
    /\ maxMana = 90
    /\ inventory = [diamonds |-> 73, emeralds |-> 43, gold |-> 2, iron |-> 7,
                    redstone |-> 3, wood |-> 5, experience |-> 3500]
    /\ equipment = [weapon |-> WoodenSword, armor |-> LeatherArmor, shield |-> NoShield]
    /\ unlockedSections = Sections
    /\ isInBattle = TRUE
    /\ dragonHealth = 0
    /\ maxDragonHealth = 1000
    /\ playerPosition = <<0, 0, 0>>
    /\ isAttacking = FALSE
    /\ isDodging = FALSE
    /\ lastAttackTime = -500
    /\ invulnerable = FALSE
    /\ dragonAttacks = << >>
    /\ hasHit = {}
    /\ attackCooldown = 0
    /\ currentAttackPattern = 0
    /\ movement = [w |-> FALSE, a |-> FALSE, s |-> FALSE, d |-> FALSE]
    /\ isMoving = FALSE
    /\ direction = 0
    /\ meshPosition = <<0, 0, 0>>
    /\ timers = << >>
    /\ readyForBattle = TRUE
    /\ op = [name |-> "startBattle"]

NextVictory ==
    \/ KeyDown(" ")
    \/ KeyDown("w")
    \/ KeyUp("w")
    \/ \E delta \in FrameDeltas, damage \in DamageRolls, cooldown \in CooldownRolls :
          /\ currentAttackPattern <= MaxVictoryAttackPattern
          /\ Frame(delta, damage, cooldown)
    \/ Timeout

SpecVictory == InitVictory /\ [][NextVictory]_vars

-----------------------------------------------------------------------------
(* Claims. *)

\* C1: in every reachable state 0 <= health <= maxHealth and
\* 0 <= dragonHealth <= maxDragonHealth, and every damage application of a
\* player attack (any level and weapon, on any dragon health up to the
\* maximum) and of a hit (any damage roll, on any health up to the maximum)
\* yields a value between 0 and the value it was applied to.
C1_HealthWithinBounds ==
    /\ 0 <= health /\ health <= maxHealth
    /\ 0 <= dragonHealth /\ dragonHealth <= maxDragonHealth
    /\ \A weapon \in {WoodenSword, IronSword, DiamondSword},
          h \in {0, 1, 69, 70, 71, 100, maxDragonHealth} :
            LET after == AttackedDragonHealth(h, PlayerDamage(level, weapon))
            IN  0 <= after /\ after <= h
    /\ \A damage \in DamageRolls, h \in {0, 1, 19, 20, 28, 29, 30, maxHealth} :
            LET after == HitHealth(h, damage)
            IN  0 <= after /\ after <= h

\* a fireball hit that would have taken health below 0 left it at 0
C1_Witness ==
    /\ op.name = "frame" /\ op.accepted > 0
    /\ health = 0 /\ level >= 5 /\ isInBattle

\* C2: a hit delivered while the player is invulnerable does not reduce
\* health, whichever callback delivers it: no step taken from a state with
\* invulnerable set lowers health.
C2_IgnoredWhileInvulnerable == [][invulnerable => health' >= health]_vars

C4_BattleGate ==
    [][ (~isInBattle /\ isInBattle') =>
          /\ Len(unlockedSections) >= 4
          /\ Range(unlockedSections) = Range(Sections)
          /\ level >= 5
      ]_vars

\* the battle has just been started
C4_Witness == op.name = "startBattle" /\ isInBattle

\* C5: the readyForBattle a render computes is true if and only if
\* unlockedSections.length >= 4 and level >= 5.
C5_ReadyForBattle ==
    readyForBattle <=> (Len(unlockedSections) >= 4 /\ level >= 5)

\* all sections unlocked at level 4 (not ready), then a reward made it level 5
C5_Witness ==
    /\ readyForBattle /\ op.name = "claimRewards"
    /\ Len(unlockedSections) = 4 /\ level = 5 /\ ~isInBattle

\* C6: level = floor(experience / 1000) + 1 in every reachable state, and
\* the level computed for experience 0 and 999 is 1, for 1000 is 2, for 2500
\* is 3.
C6_LevelFromExperience ==
    /\ level = (experience \div 1000) + 1
    /\ NewLevel(0) = 1 /\ NewLevel(999) = 1
    /\ NewLevel(1000) = 2 /\ NewLevel(2500) = 3

\* a reward took experience from 999 or less to exactly 1000, and the level to 2
C6_Witness == experience = 1000 /\ level = 2 /\ op.name = "powerUp"

\* C7: a craftEquipment call whose every cost is affordable lowers each listed
\* resource by its cost, leaves the other resources alone, and replaces only
\* the slot the item name selects (Sword: weapon, Armor: armor, Shield: shield).
\* With iron 5 and wood 2, crafting the Iron Sword is affordable, leaves both
\* at 0 and sets the weapon; an item named Shield replaces the shield only.
C7_CraftEffect ==
    [][ (op'.name = "craftEquipment"
         /\ \A k \in DOMAIN op'.cost : inventory[k] >= op'.cost[k]) =>
          /\ \A k \in DOMAIN op'.cost : inventory'[k] = inventory[k] - op'.cost[k]
          /\ \A k \in (DOMAIN inventory) \ (DOMAIN op'.cost) : inventory'[k] = inventory[k]
          /\ DOMAIN inventory' = DOMAIN inventory
          /\ equipment'.weapon =
                (IF op'.item \in {IronSword, DiamondSword} THEN op'.item ELSE equipment.weapon)
          /\ equipment'.armor =
                (IF op'.item \in {IronArmor, DiamondArmor} THEN op'.item ELSE equipment.armor)
          /\ equipment'.shield = equipment.shield
          /\ LET inv == [r \in Resources |->
                            IF r = "iron" THEN 5 ELSE IF r = "wood" THEN 2 ELSE 0]
                 cost == CraftButtons[1].cost
                 shield == <<"Iron", "Shield">>
             IN  /\ CanCraft(inv, cost)
                 /\ CraftedInventory(inv, cost) = [r \in Resources |-> 0]
                 /\ CraftedEquipment(equipment, IronSword) =
                        [equipment EXCEPT !.weapon = IronSword]
                 /\ CraftedEquipment(equipment, shield) =
                        [equipment EXCEPT !.shield = shield]
      ]_vars

\* Iron Sword crafted from iron 7, wood 5: iron 2, wood 3, the armor kept
C7_Witness ==
    /\ op.name = "craftEquipment" /\ op.canCraft /\ op.item = IronSword
    /\ equipment = [weapon |-> IronSword, armor |-> LeatherArmor, shield |-> NoShield]
    /\ inventory.iron = 2 /\ inventory.wood = 3

\* C8: a craftEquipment call with a cost that is not affordable changes
\* neither inventory nor equipment nor experience nor level.
C8_CraftNoOp ==
    [][ (op'.name = "craftEquipment"
         /\ \E k \in DOMAIN op'.cost : inventory[k] < op'.cost[k]) =>
          UNCHANGED <<inventory, equipment, statVars>>
      ]_vars

\* the Iron Sword button clicked again after the craft used up the iron
C8_Witness ==
    /\ op.name = "craftEquipment" /\ ~op.canCraft /\ op.item = IronSword
    /\ equipment.weapon = IronSword /\ inventory.iron < 5

\* C9: when an AOE attack expires and the player is vulnerable, damage is
\* applied if and only if the character stands less than 3 units from the
\* attack's target at that time.
C9_AoeByLivePosition ==
    (op.name = "timeout" /\ op.kind = "removeAttack" /\ op.type = "aoe"
     /\ op.vulnerable) =>
        (op.applied <=> PlanarDistance2(meshPosition, op.target) < 3000 * 3000)

\* C10: unlockedSections never holds a section twice, and every step keeps
\* its former content as a prefix.
C10_UnlockedAppendOnly ==
    /\ [](\A i, j \in DOMAIN unlockedSections :
            unlockedSections[i] = unlockedSections[j] => i = j)
    /\ [][ /\ Len(unlockedSections') >= Len(unlockedSections)
           /\ SubSeq(unlockedSections', 1, Len(unlockedSections)) = unlockedSections
       ]_vars

\* the four sections are still there after a reset
C10_Witness == op.name = "tryAgain" /\ Len(unlockedSections) = 4


\* C11: an accepted attack command issued while the character stands less
\* than 8 planar units from the dragon lowers dragonHealth by
\* level * 10 + bonus (50 with the Diamond Sword, 20 otherwise), not below 0;
\* one issued at 8 units or more leaves dragonHealth unchanged.
C11_AttackDamageInRange ==
    [][ (op'.name = "keyDown" /\ op'.attacks /\ op'.accepted) =>
          LET bonus == IF equipment.weapon = DiamondSword THEN 50 ELSE 20
              damage == level * 10 + bonus
          IN  IF PlanarDistance2(meshPosition, dragonPosition) < 8000 * 8000
              THEN dragonHealth' = Max(0, dragonHealth - damage)
              ELSE dragonHealth' = dragonHealth
      ]_vars


\* C12: victory can be reached from a battle by movement and attack commands.
\* Victory needs dragonHealth to come down from its maximum, so in the state
\* most favourable to the player (in battle, the dragon alive, the character
\* less than 8 units from it, the attack cooldown over) some step of the page
\* must be able to lower dragonHealth.
C12_VictoryReachable ==
    (/\ isInBattle
     /\ dragonHealth > 0
     /\ PlanarDistance2(meshPosition, dragonPosition) < 8000 * 8000
     /\ ~OnAttackCooldown(lastAttackTime))
        => ENABLED (NextFight /\ dragonHealth' < dragonHealth)

\* the dragon is never damaged: its health is the maximum in every state
C12_DragonNeverDamaged == dragonHealth = maxDragonHealth


\* C13: Try Again is taken only in battle with health <= 0; it sets health to
\* maxHealth, dragonHealth to maxDragonHealth and isInBattle to false, and
\* leaves level, experience, inventory, equipment and unlockedSections alone.
C13_TryAgainResets ==
    [][ op'.name = "tryAgain" =>
          /\ isInBattle /\ health <= 0
          /\ health' = maxHealth
          /\ dragonHealth' = maxDragonHealth
          /\ isInBattle' = FALSE
          /\ UNCHANGED <<level, experience, inventory, equipment, unlockedSections>>
      ]_vars

\* a level 5 player, dead in battle, is back at full health outside it
C13_Witness ==
    /\ op.name = "tryAgain" /\ health = 180 /\ maxHealth = 180
    /\ ~isInBattle /\ dragonHealth = maxDragonHealth


\* C14: a step that gains experience and raises the level adds exactly 20 to
\* maxHealth and 10 to maxMana and sets health and mana to the new maxima; one
\* that gains experience without raising the level leaves health, maxHealth,
\* mana and maxMana unchanged.
C14_LevelUpBonus ==
    [][ experience' > experience =>
          IF level' > level
          THEN /\ maxHealth' = maxHealth + 20 /\ health' = maxHealth'
               /\ maxMana' = maxMana + 10 /\ mana' = maxMana'
          ELSE UNCHANGED <<health, maxHealth, mana, maxMana>>
      ]_vars

\* a reward claimed in battle, within a second of a hit, raised the level to 6
\* and the damaged health to the new maximum
C14_Witness ==
    /\ op.name = "claimRewards" /\ isInBattle /\ invulnerable
    /\ level = 6 /\ experience < 5500 /\ health = 200 /\ maxHealth = 200
    /\ mana = 100 /\ maxMana = 100


\* C15: the pattern cursor is 0 when a battle starts, every frame in which
\* the dragon fires appends one attack whose kind is fireball, breath, aoe,
\* charge for cursor mod 4 = 0, 1, 2, 3 and advances the cursor by exactly 1,
\* whatever the player's state, and no other step of a battle moves the
\* cursor: the k-th attack of a battle has the kind of k mod 4.
C15_RoundRobin ==
    [][ /\ (~isInBattle /\ isInBattle') => currentAttackPattern' = 0
        /\ (op'.name = "frame" /\ op'.fired) =>
              /\ Len(dragonAttacks') = Len(dragonAttacks) + 1
              /\ dragonAttacks'[Len(dragonAttacks')].type =
                    (CASE currentAttackPattern % 4 = 0 -> "fireball"
                       [] currentAttackPattern % 4 = 1 -> "breath"
                       [] currentAttackPattern % 4 = 2 -> "aoe"
                       [] currentAttackPattern % 4 = 3 -> "charge")
              /\ currentAttackPattern' = currentAttackPattern + 1
        /\ (isInBattle /\ isInBattle' /\ ~(op'.name = "frame" /\ op'.fired)) =>
              /\ currentAttackPattern' = currentAttackPattern
              /\ Len(dragonAttacks') <= Len(dragonAttacks)
      ]_vars

\* the 14th attack (k = 13), a breath, fired at a player who is already dead
C15_Witness ==
    /\ op.name = "frame" /\ op.fired /\ currentAttackPattern = 14
    /\ dragonAttacks[Len(dragonAttacks)].type = "breath"
    /\ health = 0 /\ isInBattle


\* C16: the dragon fires only in a frame that finds its cooldown at zero; the
\* frame appends exactly one attack and sets a new cooldown of 2 to 4 seconds;
\* every other frame of the battle lowers the cooldown by no more than the
\* time that passed, and no other step changes it during a battle.  So when
\* an attack that is not the first of its battle is fired, every attack still
\* in flight was fired at least 2 seconds before.
C16_OneAttackPerCooldown ==
    [][ /\ (op'.name = "frame" /\ op'.fired) =>
              /\ isInBattle /\ attackCooldown <= 0
              /\ Len(dragonAttacks') = Len(dragonAttacks) + 1
              /\ attackCooldown' >= 2000 /\ attackCooldown' <= 4000
              /\ currentAttackPattern > 0 =>
                    \A i \in 1..Len(dragonAttacks) : dragonAttacks'[i].startTime <= -2000
        /\ (op'.name = "frame" /\ ~op'.fired) =>
              /\ Len(dragonAttacks') = Len(dragonAttacks)
              /\ attackCooldown' >= attackCooldown - op'.delta
              /\ isInBattle => attackCooldown > 0
        /\ (op'.name # "frame" /\ isInBattle /\ isInBattle') =>
              /\ attackCooldown' = attackCooldown
              /\ Len(dragonAttacks') <= Len(dragonAttacks)
      ]_vars

\* the charge is fired 2.1 s after the aoe, which is still in flight
C16_Witness ==
    /\ op.name = "frame" /\ op.fired /\ currentAttackPattern = 4
    /\ Len(dragonAttacks) = 2
    /\ dragonAttacks[1].type = "aoe" /\ dragonAttacks[1].startTime = -2100
    /\ dragonAttacks[2].type = "charge" /\ dragonAttacks[2].startTime = 0
    /\ attackCooldown = 3500


\* C17: a fireball calls the hit handler in the first frame in which its
\* progress exceeds 0.8 and its planar distance to the target is below 1.5,
\* and in no other: every call of a frame marks a fireball not marked before,
\* the mark stays while the attack is in flight, no two attacks in flight
\* share an id, and a frame lowers health by no more than the damage of the
\* fireballs it marks.
C17_FireballHitsOnce ==
    /\ [](\A i, j \in DOMAIN dragonAttacks :
            dragonAttacks[i].id = dragonAttacks[j].id => i = j)
    /\ [][ LET marked == hasHit' \ hasHit
               Reached(a) ==
                   LET elapsed == Min(0 - a.startTime, a.duration)
                       at == [c \in {1, 3} |->
                                a.position[c]
                                + ((a.target[c] - a.position[c]) * elapsed) \div a.duration]
                       dx == at[1] - a.target[1]
                       dz == at[3] - a.target[3]
                   IN  /\ dx * dx + dz * dz < 1500 * 1500
                       /\ elapsed * 10 > a.duration * 8
           IN  /\ op'.name = "frame" =>
                     /\ op'.hits = Cardinality(marked)
                     /\ hasHit \subseteq hasHit'
                     /\ \A i \in DOMAIN dragonAttacks :
                           LET before == dragonAttacks[i]
                               after == dragonAttacks'[i]
                           IN  /\ after.id = before.id
                               /\ after.id \in marked <=>
                                     /\ after.type = "fireball"
                                     /\ after.id \notin hasHit
                                     /\ Reached(after)
                               /\ after.id \in marked => ~Reached(before)
                     /\ health' >= health - op'.hits * 29
                     /\ op'.hits = 0 => health' = health
               /\ op'.name # "frame" =>
                     /\ marked = {}
                     /\ \A id \in hasHit \ hasHit' :
                           \A i \in DOMAIN dragonAttacks' : dragonAttacks'[i].id # id
       ]_vars

\* the frame after a fireball's hit: the fireball is still in flight, marked,
\* and the handler was not called again
C17_Witness ==
    /\ op.name = "frame" /\ op.hits = 0 /\ health < maxHealth
    /\ \E i \in DOMAIN dragonAttacks :
          /\ dragonAttacks[i].type = "fireball"
          /\ dragonAttacks[i].startTime = -1900
          /\ dragonAttacks[i].id \in hasHit


\* C18: every accepted hit leaves the player invulnerable, and the player
\* stays invulnerable until 1000 ms have passed since that hit: when
\* invulnerable goes back to false, no accepted hit is less than 1000 ms old,
\* that is, no timer armed by an accepted hit is still waiting.
C18_InvulnerabilityWindow ==
    [][ /\ (\/ op'.name = "frame" /\ op'.accepted > 0
            \/ op'.name = "timeout" /\ op'.kind = "removeAttack" /\ op'.applied)
              => invulnerable'
        /\ (invulnerable /\ ~invulnerable') =>
              \A i \in DOMAIN timers' :
                  timers'[i].kind = "invulnerable" => timers'[i].due <= 0
      ]_vars


\* C19: every attack in flight has duration 2000 ms if it is a fireball,
\* 3000 ms if an aoe and 1500 ms if a breath or a charge, and an integer
\* damage from 20 to 29; the attack a frame appends has the playerPosition of
\* the state as its target, and no step changes the target, the duration or
\* the damage of an attack that stays in flight.
C19_AttackFields ==
    /\ [](\A i \in DOMAIN dragonAttacks :
            LET a == dragonAttacks[i]
            IN  /\ a.type \in {"fireball", "breath", "aoe", "charge"}
                /\ a.type = "fireball" => a.duration = 2000
                /\ a.type = "aoe" => a.duration = 3000
                /\ a.type \in {"breath", "charge"} => a.duration = 1500
                /\ a.damage \in 20..29)
    /\ [][ /\ (op'.name = "frame" /\ op'.fired) =>
                  dragonAttacks'[Len(dragonAttacks')].target = playerPosition
            /\ \A i \in DOMAIN dragonAttacks, j \in DOMAIN dragonAttacks' :
                  dragonAttacks'[j].id = dragonAttacks[i].id =>
                      /\ dragonAttacks'[j].target = dragonAttacks[i].target
                      /\ dragonAttacks'[j].duration = dragonAttacks[i].duration
                      /\ dragonAttacks'[j].damage = dragonAttacks[i].damage
                      /\ dragonAttacks'[j].type = dragonAttacks[i].type
       ]_vars

\* an aoe about to expire still aims at the position held in the state when
\* it was fired, with the character at the arena's edge
C19_Witness ==
    /\ meshPosition = <<12000, 0, 0>>
    /\ \E i \in DOMAIN dragonAttacks :
          /\ dragonAttacks[i].type = "aoe" /\ dragonAttacks[i].startTime = -2900
          /\ dragonAttacks[i].target = <<0, 0, 0>> /\ dragonAttacks[i].damage = 29
          /\ dragonAttacks[i].duration = 3000


\* C20: every attack in flight has its removal timer pending, due when the
\* attack's duration has elapsed, in and out of battle; an attack leaves
\* dragonAttacks only in the step of its own timer, at that moment, and that
\* step removes nothing else; and every attack in flight is eventually removed.
C20_AttackRemoved ==
    /\ [](\A i \in DOMAIN dragonAttacks :
            LET a == dragonAttacks[i]
            IN  /\ a.id \in 1..4
                /\ a.startTime + a.duration >= 0
                /\ \E j \in DOMAIN timers :
                      /\ timers[j].kind = "removeAttack"
                      /\ timers[j].attack.id = a.id
                      /\ timers[j].due = a.startTime + a.duration)
    /\ [][ LET ids == {dragonAttacks[i].id : i \in DOMAIN dragonAttacks}
               ids2 == {dragonAttacks'[i].id : i \in DOMAIN dragonAttacks'}
           IN  IF op'.name = "timeout" /\ op'.kind = "removeAttack"
               THEN /\ Cardinality(ids \ ids2) = 1
                    /\ Len(dragonAttacks') = Len(dragonAttacks) - 1
                    /\ \A i \in DOMAIN dragonAttacks :
                          dragonAttacks[i].id \in ids \ ids2 =>
                              dragonAttacks[i].startTime + dragonAttacks[i].duration = 0
               ELSE ids \subseteq ids2
       ]_vars
    /\ \A n \in 1..4 :
          (\E i \in DOMAIN dragonAttacks : dragonAttacks[i].id = n)
              ~> ~(\E i \in DOMAIN dragonAttacks : dragonAttacks[i].id = n)

\* an attack fired before the reset has just been removed, out of battle
C20_Witness ==
    /\ op.name = "timeout" /\ op.kind = "removeAttack"
    /\ ~isInBattle /\ health = maxHealth /\ level >= 5
    /\ dragonAttacks = << >>


C22_BattleMovement ==
    [][ (op'.name = "frame" /\ isInBattle) =>
          LET step == (IF isDodging THEN 8 ELSE 4) * op'.delta
              x == meshPosition[1] + (IF movement.d THEN step ELSE 0)
                                   - (IF movement.a THEN step ELSE 0)
              z == meshPosition[3] + (IF movement.s THEN step ELSE 0)
                                   - (IF movement.w THEN step ELSE 0)
              cut(c) == IF c > 12000 THEN 12000 ELSE IF c < -12000 THEN -12000 ELSE c
          IN  IF \E key \in MoveKeys : movement[key]
              THEN /\ meshPosition' = <<cut(x), meshPosition[2], cut(z)>>
                   /\ meshPosition'[1] \in -12000..12000
                   /\ meshPosition'[3] \in -12000..12000
              ELSE meshPosition' = meshPosition
      ]_vars

\* a dodging character, "w" and "d" held, stopped by the corner of the arena
C22_Witness ==
    /\ op.name = "frame"
    /\ isInBattle /\ isDodging
    /\ movement.w /\ movement.d /\ ~movement.a /\ ~movement.s
    /\ meshPosition[1] = 12000
    /\ meshPosition[3] = -12000


\* C23: after a frame that displaces the character, gameState.playerPosition
\* holds the character's new x and z.
C23_PositionFollowsCharacter ==
    [][ (op'.name = "frame" /\ meshPosition' # meshPosition) =>
          /\ playerPosition'[1] = meshPosition'[1]
          /\ playerPosition'[3] = meshPosition'[3]
      ]_vars


\* C24: no step taken while isInBattle is false lowers the player's health.
C24_NoDamageOutsideBattle ==
    [][ ~isInBattle => health' >= health ]_vars


\* C25: in every reachable state maxHealth = 100 + 20 * (level - 1) and
\* maxMana = 50 + 10 * (level - 1); every award of the page (unlock, experience
\* card, skill, project) is at most 500 and, added to the experience of the
\* state, raises the level by at most one.
C25_MaximaFromLevel ==
    LET awards == {UnlockButtons[i].experience : i \in DOMAIN UnlockButtons}
                    \cup {experiences[i].experience : i \in DOMAIN experiences}
                    \cup {projects[i].experience : i \in DOMAIN projects}
                    \cup {skills[i] : i \in DOMAIN skills}
    IN  /\ maxHealth = 100 + 20 * (level - 1)
        /\ maxMana = 50 + 10 * (level - 1)
        /\ \A amount \in awards :
              /\ amount <= 500
              /\ NewLevel(experience + amount) <= level + 1

\* five level-ups outside battle: level 6 with maxima 200 and 100
C25_Witness ==
    /\ level = 6 /\ maxHealth = 200 /\ maxMana = 100
    /\ ~isInBattle /\ op.name = "claimRewards"


\* C26: in every reachable state each of the six resource counts of the
\* inventory is at least 0, two craft clicks handled on one render included.
C26_InventoryNonNegative == \A r \in Resources : inventory[r] >= 0


\* C27: once health is 0 in a battle, every step other than Try Again leaves
\* health at 0 and the battle on.
C27_DefeatPersists ==
    [][ (isInBattle /\ health <= 0 /\ op'.name # "tryAgain") =>
          (isInBattle' /\ health' <= 0)
      ]_vars

=============================================================================
